---- MODULE Spec2Model ----
(***************************************************************************)
(* ZohoTokenKeeper of src/app.py: the process-wide cache of the Zoho OAuth *)
(* access token, its eager refresh at construction, its background        *)
(* refresh loop and the foreground get() of the request handlers.         *)
(*                                                                         *)
(* Threads: MainT runs ZohoTokenKeeper.__init__ (module import), LoopT is  *)
(* the daemon thread running _loop, Callers are request-handler threads    *)
(* calling get().  Every thread advances one Python statement group at a   *)
(* time; reads and writes of self._access_token / self._expires_at are     *)
(* individually atomic (GIL), and threading.Lock is NOT re-entrant.        *)
(*                                                                         *)
(* Time is in seconds; the authorization server issues a new, distinct     *)
(* access token at every successful exchange (tokens are numbered 1, 2, ..*)
(* in order of issue, 0 stands for Python's None).                         *)
(***************************************************************************)
EXTENDS Integers, FiniteSets, Sequences, TLC

\* ---------------------------------------------------------------- bounds
NumCallers == 2      \* request-handler threads calling get()
MaxCalls   == 1      \* get() calls per request-handler thread
MaxTicks   == 1      \* how many times the clock advances

\* ------------------------------------------------------ program constants
SafetyMargin     == 60     \* "- 60" in _loop and get
LoopSleep        == 30     \* time.sleep(30)
DefaultExpiresIn == 3600   \* data.get("expires_in", 3600)
HttpOk           == 200    \* resp.status_code != 200
NoToken          == 0      \* self._access_token = None
InitialExpiry    == 0      \* self._expires_at = 0.0
Unlocked         == 0      \* _lock = threading.Lock(), nobody holds it
HttpServerError  == 500    \* /submit: return jsonify(status="error"), 500
NoResponse       == 0      \* /submit has not answered with an error

\* the clock advances in steps of one loop period
TimeStep == LoopSleep

Callers == 1 .. NumCallers
LoopT   == NumCallers + 1
MainT   == NumCallers + 2
Threads == Callers \cup {LoopT, MainT}

\* expires_in values the authorization server answers with (seconds)
ExpiresInValues == {0, 90}

\* The answers of one token-endpoint exchange: a transport failure or
\* timeout (requests.post raises), a non-200 status, a 200 body without
\* access_token, or a 200 body with access_token and an optional expires_in.
Responses ==
  {[net_error |-> TRUE,  status |-> 0,      has_token |-> FALSE, has_expires_in |-> FALSE, expires_in |-> 0],
   [net_error |-> FALSE, status |-> 500,    has_token |-> FALSE, has_expires_in |-> FALSE, expires_in |-> 0],
   [net_error |-> FALSE, status |-> HttpOk, has_token |-> FALSE, has_expires_in |-> FALSE, expires_in |-> 0],
   [net_error |-> FALSE, status |-> HttpOk, has_token |-> TRUE,  has_expires_in |-> FALSE, expires_in |-> 0]}
  \cup
  {[net_error |-> FALSE, status |-> HttpOk, has_token |-> TRUE,  has_expires_in |-> TRUE,  expires_in |-> e] :
      e \in ExpiresInValues}

VARIABLES
  now,            \* time.time()
  creds,          \* ZOHO_CLIENT_ID and ZOHO_CLIENT_SECRET and ZOHO_REFRESH_TOKEN all set
  access_token,   \* self._access_token
  expires_at,     \* self._expires_at
  lock,           \* holder of ZohoTokenKeeper._lock, Unlocked when free
  pc,             \* position of every thread
  token,          \* local `token` of a running _refresh
  expires_in,     \* local `expires_in` of a running _refresh
  wake,           \* end of the loop's current time.sleep(30)
  result,         \* outcome of each caller's last get()
  issued,         \* tokens issued so far by the authorization server
  calls,          \* get() calls started by each caller
  \* ---- history of the current get() call of each caller
  expVer,         \* token whose expiry self._expires_at currently holds
  tested,         \* expVer at the last expiry test the call made
  stale,          \* token that was cached and past its expires_at at call start
  conc,           \* callers that had seen expiry and waited for the lock at call start
  xcount,         \* exchanges performed by the call
  sawExpired,     \* the call's first test found the token expired
  getFailed,      \* some get() has raised
  loopErrors,     \* errors logged by the loop
  replyAt,        \* time at which the exchange of a running _refresh was answered
  issuedAt,       \* time of the last write of self._expires_at
  sent,           \* <<token>> of the CRM request the consumer of the call dispatched
  response,       \* error status /submit answered with because get() raised
  ctorErr         \* exception that left ZohoTokenKeeper(), "" when none

vars == <<now, creds, access_token, expires_at, lock, pc, token, expires_in,
          wake, result, issued, calls, expVer, tested, stale, conc, xcount,
          sawExpired, getFailed, loopErrors, replyAt, issuedAt, sent,
          response, ctorErr>>

\* what only the steps named below change
ext == <<replyAt, issuedAt, sent, response, ctorErr>>

hist == <<tested, stale, conc, xcount, sawExpired>>

NoResult == [kind |-> "none", tok |-> NoToken, err |-> ""]
Returned(v) == [kind |-> "token", tok |-> v, err |-> ""]
Raised(e)   == [kind |-> "error", tok |-> NoToken, err |-> e]

\* ---------------------------------------------------------- pure helpers

\* the safety margin applied with the wrong sign
ExpiredMarginAdded(t, exp) == t >= exp + SafetyMargin

\* time.time() >= self._expires_at - 60
Expired(t, exp) == t >= exp - SafetyMargin

\* int(data.get("expires_in", 3600))
ExpiresIn(r) == IF r.has_expires_in THEN r.expires_in ELSE DefaultExpiresIn

\* the body of a 200 answer accepted without looking for access_token
ExchangeErrorIgnoresBody(r) ==
  IF r.net_error THEN "network"
  ELSE IF r.status # HttpOk THEN "http"
  ELSE ""

\* the exception _refresh raises on answer r, "" when it raises none
ExchangeError(r) ==
  IF r.net_error THEN "network"
  ELSE IF r.status # HttpOk THEN "http"
  ELSE IF ~r.has_token THEN "no_token"
  ELSE ""

Init ==
  /\ now = 0
  /\ creds \in BOOLEAN
  /\ access_token = NoToken
  /\ expires_at = InitialExpiry
  /\ lock = Unlocked
  /\ pc = [t \in Threads |-> IF t = MainT THEN "r_begin"
                             ELSE IF t = LoopT THEN "unstarted" ELSE "idle"]
  /\ token = [t \in Threads |-> NoToken]
  /\ expires_in = [t \in Threads |-> 0]
  /\ wake = 0
  /\ result = [t \in Callers |-> NoResult]
  /\ issued = 0
  /\ calls = [t \in Callers |-> 0]
  /\ expVer = NoToken
  /\ tested = [t \in Callers |-> NoToken]
  /\ stale = [t \in Callers |-> NoToken]
  /\ conc = [t \in Callers |-> {}]
  /\ xcount = [t \in Callers |-> 0]
  /\ sawExpired = [t \in Callers |-> FALSE]
  /\ getFailed = FALSE
  /\ loopErrors = 0
  /\ replyAt = [t \in Threads |-> 0]
  /\ issuedAt = 0
  /\ sent = [t \in Callers |-> <<>>]
  /\ response = [t \in Callers |-> NoResponse]
  /\ ctorErr = ""

\* the clock advances
Tick ==
  /\ now < MaxTicks * TimeStep
  /\ now' = now + TimeStep
  /\ UNCHANGED <<creds, access_token, expires_at, lock, pc, token, expires_in,
                 wake, result, issued, calls, expVer, hist, getFailed, loopErrors, ext>>

\* ------------------------------------------------- how _refresh ends
\* get() swallowing the exception and falling through to its return
RefreshRaisesSwallowed(t, e) ==
  IF t = MainT THEN
    /\ pc' = [pc EXCEPT ![t] = "failed"]
    /\ ctorErr' = e
    /\ UNCHANGED <<lock, wake, result, getFailed, loopErrors, response>>
  ELSE IF t = LoopT THEN
    /\ pc' = [pc EXCEPT ![t] = "l_sleep"]
    /\ wake' = now + LoopSleep
    /\ loopErrors' = IF loopErrors < 1 THEN loopErrors + 1 ELSE loopErrors
    /\ UNCHANGED <<lock, result, getFailed, response, ctorErr>>
  ELSE
    /\ pc' = [pc EXCEPT ![t] = "g_ret"]
    /\ lock' = Unlocked
    /\ UNCHANGED <<wake, loopErrors, result, getFailed, response, ctorErr>>

\* the consumer catching the exception of get() and posting all the same
RefreshRaisesConsumerGoesOn(t, e) ==
  IF t = MainT THEN
    /\ pc' = [pc EXCEPT ![t] = "failed"]
    /\ ctorErr' = e
    /\ UNCHANGED <<lock, wake, result, getFailed, loopErrors, response>>
  ELSE IF t = LoopT THEN
    /\ pc' = [pc EXCEPT ![t] = "l_sleep"]
    /\ wake' = now + LoopSleep
    /\ loopErrors' = IF loopErrors < 1 THEN loopErrors + 1 ELSE loopErrors
    /\ UNCHANGED <<lock, result, getFailed, response, ctorErr>>
  ELSE
    /\ pc' = [pc EXCEPT ![t] = "c_post"]
    /\ lock' = Unlocked
    /\ result' = [result EXCEPT ![t] = Raised(e)]
    /\ getFailed' = TRUE
    /\ UNCHANGED <<wake, loopErrors, response, ctorErr>>

\* get() leaving on the exception without releasing the lock
RefreshRaisesKeepsLock(t, e) ==
  IF t = MainT THEN
    /\ pc' = [pc EXCEPT ![t] = "failed"]
    /\ ctorErr' = e
    /\ UNCHANGED <<lock, wake, result, getFailed, loopErrors, response>>
  ELSE IF t = LoopT THEN
    /\ pc' = [pc EXCEPT ![t] = "l_sleep"]
    /\ wake' = now + LoopSleep
    /\ loopErrors' = IF loopErrors < 1 THEN loopErrors + 1 ELSE loopErrors
    /\ UNCHANGED <<lock, result, getFailed, response, ctorErr>>
  ELSE
    /\ pc' = [pc EXCEPT ![t] = "idle"]
    /\ result' = [result EXCEPT ![t] = Raised(e)]
    /\ getFailed' = TRUE
    /\ response' = [response EXCEPT ![t] = HttpServerError]
    /\ UNCHANGED <<lock, wake, loopErrors, ctorErr>>

\* get() trying _refresh again, inside the same call, when it raised
RefreshRaisesRetries(t, e) ==
  IF t = MainT THEN
    /\ pc' = [pc EXCEPT ![t] = "failed"]
    /\ ctorErr' = e
    /\ UNCHANGED <<lock, wake, result, getFailed, loopErrors, response>>
  ELSE IF t = LoopT THEN
    /\ pc' = [pc EXCEPT ![t] = "l_sleep"]
    /\ wake' = now + LoopSleep
    /\ loopErrors' = IF loopErrors < 1 THEN loopErrors + 1 ELSE loopErrors
    /\ UNCHANGED <<lock, result, getFailed, response, ctorErr>>
  ELSE IF xcount[t] < 2 THEN
    /\ pc' = [pc EXCEPT ![t] = "r_begin"]
    /\ UNCHANGED <<lock, wake, result, getFailed, loopErrors, response, ctorErr>>
  ELSE
    /\ pc' = [pc EXCEPT ![t] = "idle"]
    /\ lock' = Unlocked
    /\ result' = [result EXCEPT ![t] = Raised(e)]
    /\ getFailed' = TRUE
    /\ response' = [response EXCEPT ![t] = HttpServerError]
    /\ UNCHANGED <<wake, loopErrors, ctorErr>>

\* An exception leaves _refresh in thread t: __init__ lets it escape (the
\* module import fails, no loop thread), _loop logs it and goes to sleep,
\* get() leaves its `with self._lock` block (releasing the lock) and lets
\* the exception reach the caller: it passes through zoho_headers and the
\* consumer, whose requests.post is not reached, to the except clause of
\* submit, which answers 500.
RefreshRaises(t, e) ==
  IF t = MainT THEN
    /\ pc' = [pc EXCEPT ![t] = "failed"]
    /\ ctorErr' = e
    /\ UNCHANGED <<lock, wake, result, getFailed, loopErrors, response>>
  ELSE IF t = LoopT THEN
    /\ pc' = [pc EXCEPT ![t] = "l_sleep"]
    /\ wake' = now + LoopSleep
    /\ loopErrors' = IF loopErrors < 1 THEN loopErrors + 1 ELSE loopErrors
    /\ UNCHANGED <<lock, result, getFailed, response, ctorErr>>
  ELSE
    /\ pc' = [pc EXCEPT ![t] = "idle"]
    /\ lock' = Unlocked
    /\ result' = [result EXCEPT ![t] = Raised(e)]
    /\ getFailed' = TRUE
    /\ response' = [response EXCEPT ![t] = HttpServerError]
    /\ UNCHANGED <<wake, loopErrors, ctorErr>>

\* _refresh returns normally in thread t, leaving its `with self._lock`:
\* __init__ starts the loop thread, _loop goes to sleep, get() leaves its
\* own `with self._lock` block and goes on to its return statement.
RefreshReturns(t) ==
  /\ lock' = Unlocked
  /\ IF t = MainT THEN
       /\ pc' = [pc EXCEPT ![t] = "done", ![LoopT] = "l_check"]
       /\ UNCHANGED wake
     ELSE IF t = LoopT THEN
       /\ pc' = [pc EXCEPT ![t] = "l_sleep"]
       /\ wake' = now + LoopSleep
     ELSE
       /\ pc' = [pc EXCEPT ![t] = "g_ret"]
       /\ UNCHANGED wake

\* ------------------------------------------------------------ _refresh
\* the request sent without the credentials check
RefreshStartNoCheck(t) ==
  /\ pc[t] = "r_begin"
  /\ pc' = [pc EXCEPT ![t] = "r_post"]
  /\ xcount' = IF t \in Callers THEN [xcount EXCEPT ![t] = @ + 1] ELSE xcount
  /\ UNCHANGED <<lock, wake, result, getFailed, loopErrors, response, ctorErr>>
  /\ UNCHANGED <<now, creds, access_token, expires_at, token, expires_in,
                 issued, calls, expVer, tested, stale, conc, sawExpired,
                 replyAt, issuedAt, sent>>

\* credentials check, then requests.post(TOKEN_ENDPOINT, ...) is sent
RefreshStart(t) ==
  /\ pc[t] = "r_begin"
  /\ IF ~creds
     THEN /\ RefreshRaises(t, "config")
          /\ UNCHANGED xcount
     ELSE /\ pc' = [pc EXCEPT ![t] = "r_post"]
          /\ xcount' = IF t \in Callers THEN [xcount EXCEPT ![t] = @ + 1] ELSE xcount
          /\ UNCHANGED <<lock, wake, result, getFailed, loopErrors, response, ctorErr>>
  /\ UNCHANGED <<now, creds, access_token, expires_at, token, expires_in,
                 issued, calls, expVer, tested, stale, conc, sawExpired,
                 replyAt, issuedAt, sent>>

\* the cached token assigned from the body before the body is validated
ExchangeReplyStoresFirst(t, r) ==
  /\ pc[t] = "r_post"
  /\ IF ExchangeError(r) # ""
     THEN /\ RefreshRaises(t, ExchangeError(r))
          /\ access_token' = NoToken
          /\ UNCHANGED <<token, expires_in, issued, replyAt>>
     ELSE /\ pc' = [pc EXCEPT ![t] = "r_lock"]
          /\ issued' = IF r.has_token THEN issued + 1 ELSE issued
          /\ token' = [token EXCEPT ![t] = IF r.has_token THEN issued + 1 ELSE NoToken]
          /\ expires_in' = [expires_in EXCEPT ![t] = ExpiresIn(r)]
          /\ replyAt' = [replyAt EXCEPT ![t] = now]
          /\ UNCHANGED <<access_token, lock, wake, result, getFailed, loopErrors,
                         response, ctorErr>>
  /\ UNCHANGED <<now, creds, expires_at, calls, expVer, hist, issuedAt, sent>>

\* the exchange ends with answer r; status, body and expires_in are read
ExchangeReply(t, r) ==
  /\ pc[t] = "r_post"
  /\ IF ExchangeError(r) # ""
     THEN /\ RefreshRaises(t, ExchangeError(r))
          /\ UNCHANGED <<token, expires_in, issued, replyAt>>
     ELSE /\ pc' = [pc EXCEPT ![t] = "r_lock"]
          /\ issued' = IF r.has_token THEN issued + 1 ELSE issued
          /\ token' = [token EXCEPT ![t] = IF r.has_token THEN issued + 1 ELSE NoToken]
          /\ expires_in' = [expires_in EXCEPT ![t] = ExpiresIn(r)]
          /\ replyAt' = [replyAt EXCEPT ![t] = now]
          /\ UNCHANGED <<lock, wake, result, getFailed, loopErrors, response, ctorErr>>
  /\ UNCHANGED <<now, creds, access_token, expires_at, calls, expVer, hist,
                 issuedAt, sent>>

\* with self._lock:   (inside _refresh; blocks while anyone holds the lock)
RefreshAcquire(t) ==
  /\ pc[t] = "r_lock"
  /\ lock = Unlocked
  /\ lock' = t
  /\ pc' = [pc EXCEPT ![t] = "r_wtok"]
  /\ UNCHANGED <<now, creds, access_token, expires_at, token, expires_in,
                 wake, result, issued, calls, expVer, hist, getFailed, loopErrors, ext>>

\* self._access_token = token
WriteToken(t) ==
  /\ pc[t] = "r_wtok"
  /\ access_token' = token[t]
  /\ pc' = [pc EXCEPT ![t] = "r_wexp"]
  /\ UNCHANGED <<now, creds, expires_at, lock, token, expires_in,
                 wake, result, issued, calls, expVer, hist, getFailed, loopErrors, ext>>

\* the expiry stored as the bare expires_in, without the clock
WriteExpiryNoClock(t) ==
  /\ pc[t] = "r_wexp"
  /\ expires_at' = expires_in[t]
  /\ expVer' = token[t]
  /\ token' = [token EXCEPT ![t] = NoToken]
  /\ expires_in' = [expires_in EXCEPT ![t] = 0]
  /\ issuedAt' = now
  /\ replyAt' = [replyAt EXCEPT ![t] = 0]
  /\ RefreshReturns(t)
  /\ UNCHANGED <<now, creds, access_token,
                 result, issued, calls, hist, getFailed, loopErrors,
                 sent, response, ctorErr>>

\* self._expires_at = time.time() + expires_in, end of the with block
WriteExpiry(t) ==
  /\ pc[t] = "r_wexp"
  /\ expires_at' = now + expires_in[t]
  /\ expVer' = token[t]
  /\ token' = [token EXCEPT ![t] = NoToken]
  /\ expires_in' = [expires_in EXCEPT ![t] = 0]
  /\ issuedAt' = now
  /\ replyAt' = [replyAt EXCEPT ![t] = 0]
  /\ RefreshReturns(t)
  /\ UNCHANGED <<now, creds, access_token,
                 result, issued, calls, hist, getFailed, loopErrors,
                 sent, response, ctorErr>>

\* ---------------------------------------------------------------- _loop
\* if time.time() >= self._expires_at - 60: self._refresh()
LoopCheck ==
  /\ pc[LoopT] = "l_check"
  /\ IF Expired(now, expires_at)
     THEN /\ pc' = [pc EXCEPT ![LoopT] = "r_begin"]
          /\ UNCHANGED wake
     ELSE /\ pc' = [pc EXCEPT ![LoopT] = "l_sleep"]
          /\ wake' = now + LoopSleep
  /\ UNCHANGED <<now, creds, access_token, expires_at, lock, token, expires_in,
                 result, issued, calls, expVer, hist, getFailed, loopErrors, ext>>

\* time.sleep(30) is over
LoopWake ==
  /\ pc[LoopT] = "l_sleep"
  /\ now >= wake
  /\ pc' = [pc EXCEPT ![LoopT] = "l_check"]
  /\ wake' = 0
  /\ UNCHANGED <<now, creds, access_token, expires_at, lock, token, expires_in,
                 result, issued, calls, expVer, hist, getFailed, loopErrors, ext>>

\* ------------------------------------------------------------------ get
\* get() going for the lock whatever the expiry
GetCheck1AlwaysLocks(t) ==
  /\ pc[t] = "idle"
  /\ pc[MainT] = "done"
  /\ calls[t] < MaxCalls
  /\ calls' = [calls EXCEPT ![t] = @ + 1]
  /\ result' = [result EXCEPT ![t] = NoResult]
  /\ pc' = [pc EXCEPT ![t] = "g_lock"]
  /\ tested' = [tested EXCEPT ![t] = expVer]
  /\ stale' = [stale EXCEPT ![t] = IF now >= expires_at THEN expVer ELSE NoToken]
  /\ sawExpired' = [sawExpired EXCEPT ![t] = Expired(now, expires_at)]
  /\ conc' = [conc EXCEPT ![t] = {u \in Callers \ {t} : pc[u] = "g_lock"}]
  /\ xcount' = [xcount EXCEPT ![t] = 0]
  /\ sent' = [sent EXCEPT ![t] = <<>>]
  /\ response' = [response EXCEPT ![t] = NoResponse]
  /\ UNCHANGED <<now, creds, access_token, expires_at, lock, token, expires_in,
                 wake, issued, expVer, getFailed, loopErrors, replyAt, issuedAt, ctorErr>>

\* a handler calls get(): first, lock-free test of the expiry
GetCheck1(t) ==
  /\ pc[t] = "idle"
  /\ pc[MainT] = "done"
  /\ calls[t] < MaxCalls
  /\ calls' = [calls EXCEPT ![t] = @ + 1]
  /\ result' = [result EXCEPT ![t] = NoResult]
  /\ pc' = [pc EXCEPT ![t] = IF Expired(now, expires_at) THEN "g_lock" ELSE "g_ret"]
  /\ tested' = [tested EXCEPT ![t] = expVer]
  /\ stale' = [stale EXCEPT ![t] = IF now >= expires_at THEN expVer ELSE NoToken]
  /\ sawExpired' = [sawExpired EXCEPT ![t] = Expired(now, expires_at)]
  /\ conc' = [conc EXCEPT ![t] = IF Expired(now, expires_at)
                                 THEN {u \in Callers \ {t} : pc[u] = "g_lock"}
                                 ELSE {u \in Callers \ {t} : pc[u] = "g_ret" /\ ~sawExpired[u]}]
  /\ xcount' = [xcount EXCEPT ![t] = 0]
  /\ sent' = [sent EXCEPT ![t] = <<>>]
  /\ response' = [response EXCEPT ![t] = NoResponse]
  /\ UNCHANGED <<now, creds, access_token, expires_at, lock, token, expires_in,
                 wake, issued, expVer, getFailed, loopErrors, replyAt, issuedAt, ctorErr>>

\* with self._lock:   (inside get)
GetAcquire(t) ==
  /\ pc[t] = "g_lock"
  /\ lock = Unlocked
  /\ lock' = t
  /\ pc' = [pc EXCEPT ![t] = "g_check2"]
  /\ UNCHANGED <<now, creds, access_token, expires_at, token, expires_in,
                 wake, result, issued, calls, expVer, hist, getFailed, loopErrors, ext>>

\* second test under the lock; self._refresh() when still expired
GetCheck2(t) ==
  /\ pc[t] = "g_check2"
  /\ tested' = [tested EXCEPT ![t] = expVer]
  /\ IF Expired(now, expires_at)
     THEN /\ pc' = [pc EXCEPT ![t] = "r_begin"]
          /\ UNCHANGED lock
     ELSE /\ pc' = [pc EXCEPT ![t] = "g_ret"]
          /\ lock' = Unlocked
  /\ UNCHANGED <<now, creds, access_token, expires_at, token, expires_in,
                 wake, result, issued, calls, expVer, stale, conc, xcount,
                 sawExpired, getFailed, loopErrors, ext>>

\* return self._access_token
GetReturn(t) ==
  /\ pc[t] = "g_ret"
  /\ result' = [result EXCEPT ![t] = Returned(access_token)]
  /\ pc' = [pc EXCEPT ![t] = "c_post"]
  /\ UNCHANGED <<now, creds, access_token, expires_at, lock, token, expires_in,
                 wake, issued, calls, expVer, hist, getFailed, loopErrors, ext>>

\* ------------------------------------------------------------ consumers
\* zoho_create_lead / zoho_attach_pdf: requests.post to the CRM with the
\* header "Zoho-oauthtoken <what get() returned>".  What the CRM answers and
\* what submit does with it is outside the model.
ConsumerPost(t) ==
  /\ pc[t] = "c_post"
  /\ sent' = [sent EXCEPT ![t] = <<result[t].tok>>]
  /\ pc' = [pc EXCEPT ![t] = "idle"]
  /\ UNCHANGED <<now, creds, access_token, expires_at, lock, token, expires_in,
                 wake, result, issued, calls, expVer, hist, getFailed, loopErrors,
                 replyAt, issuedAt, response, ctorErr>>

Next ==
  \/ Tick
  \/ LoopCheck
  \/ LoopWake
  \/ \E t \in Threads : RefreshStart(t)
  \/ \E t \in Threads : \E r \in Responses : ExchangeReply(t, r)
  \/ \E t \in Threads : RefreshAcquire(t)
  \/ \E t \in Threads : WriteToken(t)
  \/ \E t \in Threads : WriteExpiry(t)
  \/ \E t \in Callers : GetCheck1(t)
  \/ \E t \in Callers : GetAcquire(t)
  \/ \E t \in Callers : GetCheck2(t)
  \/ \E t \in Callers : GetReturn(t)
  \/ \E t \in Callers : ConsumerPost(t)

Spec == Init /\ [][Next]_vars

\* Scheduling: every started thread keeps running (the OS schedules it), an
\* exchange ends (requests.post has timeout=15), and a thread waiting for the
\* lock gets it if the lock keeps being released.  When handlers call get()
\* and how the clock advances is left to the environment.
Fairness ==
  /\ WF_vars(LoopCheck)
  /\ WF_vars(LoopWake)
  /\ \A t \in Threads :
       /\ WF_vars(RefreshStart(t))
       /\ WF_vars(\E r \in Responses : ExchangeReply(t, r))
       /\ SF_vars(RefreshAcquire(t))
       /\ WF_vars(WriteToken(t))
       /\ WF_vars(WriteExpiry(t))
  /\ \A t \in Callers :
       /\ SF_vars(GetAcquire(t))
       /\ WF_vars(GetCheck2(t))
       /\ WF_vars(GetReturn(t))
       /\ WF_vars(ConsumerPost(t))

FairSpec == Spec /\ Fairness

TypeOK ==
  /\ now \in 0 .. MaxTicks * TimeStep
  /\ lock \in Threads \cup {Unlocked}
  /\ access_token \in 0 .. issued

\* ------------------------------------------------------------ properties

\* caller t has made a get() call and that call is over
Completed(t) == pc[t] \in {"idle", "c_post"} /\ result[t].kind # "none"

\* t and u called get() concurrently at a moment where the token was expired:
\* both found it expired at their first test, and the later of the two made
\* that test while the earlier one had not yet got the lock
ConcurrentExpired(t, u) ==
  /\ t # u
  /\ sawExpired[t] /\ sawExpired[u]
  /\ (t \in conc[u] \/ u \in conc[t])

\* C1: every get() call eventually returns a token or raises an error (the
\* lock it took is released), given that every exchange ends.
C1_GetTerminates ==
  \A t \in Callers : (pc[t] # "idle") ~> (pc[t] = "idle")

\* C2: when two get() calls are made concurrently while the token is expired
\* and nobody else stores a token meanwhile, the two calls together perform
\* exactly one token-endpoint exchange.
C2_SingleFlight ==
  \A t, u \in Callers :
    (/\ ConcurrentExpired(t, u)
     /\ Completed(t) /\ Completed(u)
     /\ tested[t] = expVer /\ tested[u] = expVer)
    => xcount[t] + xcount[u] = 1

\* C3: two get() calls made concurrently while the token is expired end with
\* the same outcome: the same token, or the same error.
C3_SameOutcome ==
  \A t, u \in Callers :
    (ConcurrentExpired(t, u) /\ Completed(t) /\ Completed(u))
    => result[t] = result[u]

\* the threads whose token-endpoint exchange is in flight
InFlight == {t \in Threads : pc[t] = "r_post"}

\* C4: at most one token-endpoint exchange is in flight at any moment.
C4_OneExchangeInFlight == Cardinality(InFlight) <= 1

\* C5: a get() call started when the cached token was past its expires_at
\* never returns that token.
C5_NoStaleServing ==
  \A t \in Callers :
    (result[t].kind = "token" /\ stale[t] # NoToken) => result[t].tok # stale[t]

\* a get() that started with a token past its expires_at returned another one
C5_Witness ==
  \E t \in Callers :
    /\ stale[t] # NoToken
    /\ result[t].kind = "token"
    /\ result[t].tok # NoToken

\* C6: after a get() has failed on a failing exchange, a successful answer of
\* the provider to the loop is stored by the loop, and a successful answer to
\* a later get() makes that get() return.
C6_FailureIsolation ==
  /\ (getFailed /\ pc[LoopT] = "r_lock") ~> (pc[LoopT] = "l_sleep")
  /\ \A t \in Callers : (getFailed /\ pc[t] = "r_lock") ~> (result[t].kind = "token")

\* C7: the token a get() returns and the expiry it last tested were written
\* by the same refresh.
C7_TokenMatchesTestedExpiry ==
  \A t \in Callers : result[t].kind = "token" => result[t].tok = tested[t]

\* C8: every refresh attempt of the background loop ends, whatever the
\* get() calls do, with the loop waiting for its next tick.
C8_LoopNeverStuck ==
  (pc[LoopT] \in {"r_begin", "r_post", "r_lock", "r_wtok", "r_wexp"}) ~> (pc[LoopT] = "l_sleep")

\* C9: when the exchange of a get() fails, the get() ends at once with the
\* error as its outcome, it does not go on to return the cached token.
C9_GetPropagatesFailure ==
  [][\A t \in Callers :
       (pc[t] = "r_post" /\ pc'[t] \notin {"r_post", "r_lock"})
       => (pc'[t] = "idle" /\ result'[t].kind = "error")]_vars

\* a get() that found the token expired has failed on its exchange
C9_Witness ==
  \E t \in Callers :
    /\ Completed(t)
    /\ sawExpired[t] /\ xcount[t] = 1
    /\ result[t].kind = "error"
    /\ access_token # NoToken

C11_StartupGating ==
  ~creds =>
    /\ pc[MainT] \in {"r_begin", "failed"}
    /\ pc[MainT] = "failed" => ctorErr = "config"
    /\ pc[LoopT] = "unstarted"
    /\ InFlight = {}
    /\ issued = 0
    /\ \A t \in Callers : calls[t] = 0

\* construction has failed for want of credentials
C11_Witness == ~creds /\ pc[MainT] = "failed" /\ ctorErr = "config"

\* t and u called get() concurrently while the token was valid: both found it
\* valid at their first test, the later of the two while the earlier one had
\* not yet returned
ConcurrentValid(t, u) ==
  /\ t # u
  /\ calls[t] > 0 /\ calls[u] > 0
  /\ ~sawExpired[t] /\ ~sawExpired[u]
  /\ (t \in conc[u] \/ u \in conc[t])

\* C12: two get() calls made concurrently while the token is valid return
\* the same token.
C12_Consistency ==
  \A t, u \in Callers :
    (ConcurrentValid(t, u) /\ Completed(t) /\ Completed(u))
    => result[t] = result[u]

\* thread t makes the expiry write of its _refresh in this step
ExpiryWritten(t) == pc[t] = "r_wexp" /\ pc'[t] # "r_wexp"

\* caller t starts a get() in this step
GetStarts(t) == pc[t] = "idle" /\ pc'[t] # "idle"

C14_NoDispatchWithoutToken ==
  \A t \in Callers :
    /\ result[t].kind = "error"
         => (sent[t] = <<>> /\ response[t] = HttpServerError /\ pc[t] = "idle")
    /\ sent[t] # <<>>
         => (result[t].kind = "token" /\ sent[t] = <<result[t].tok>>)

\* one consumer's get() has raised and nothing was dispatched for it, while
\* another consumer has dispatched its request
C14_Witness ==
  \E t, u \in Callers :
    /\ result[t].kind = "error" /\ sent[t] = <<>> /\ response[t] = HttpServerError
    /\ sent[u] # <<>>

\* C15: a get() that finds now < expires_at - 60 goes to its return statement
\* and returns the cached token, in two steps that take no lock, send no
\* exchange and leave the cached pair alone; the return never waits: it can
\* be taken whoever holds the lock.
C15_FastPath ==
  /\ [](\A t \in Callers : pc[t] = "g_ret" => ENABLED GetReturn(t))
  /\ [][\A t \in Callers :
         /\ (GetStarts(t) /\ ~Expired(now, expires_at))
            => /\ pc'[t] = "g_ret"
               /\ lock' = lock /\ lock # t
               /\ xcount'[t] = 0
               /\ access_token' = access_token /\ expires_at' = expires_at
         /\ (pc[t] = "g_ret" /\ ~sawExpired[t] /\ pc'[t] # "g_ret")
            => /\ result'[t] = Returned(access_token)
               /\ lock' = lock /\ lock # t
               /\ xcount'[t] = 0
               /\ access_token' = access_token /\ expires_at' = expires_at]_vars

\* a get() has found the token valid and is at its return statement while
\* another thread holds the lock, for good: that thread waits for it itself
C15_Witness ==
  \E t \in Callers : \E u \in Callers \ {t} :
    /\ pc[t] = "g_ret" /\ ~sawExpired[t] /\ xcount[t] = 0
    /\ lock = u /\ pc[u] = "r_lock"

\* C16: the step in which a get() fails on its refresh releases the lock the
\* get() held, and a caller whose get() has raised never holds the lock.
C16_LockReleasedOnFailure ==
  /\ [][\A t \in Callers :
          (pc[t] \in {"r_begin", "r_post"} /\ pc'[t] \notin {"r_begin", "r_post", "r_lock"})
          => (lock = t /\ lock' = Unlocked /\ result'[t].kind = "error")]_vars
  /\ [](\A t \in Callers : result[t].kind = "error" => lock # t)

\* after a get() has failed another thread has taken the lock
C16_Witness ==
  \E t \in Callers : \E u \in Threads \ {t} :
    /\ result[t].kind = "error"
    /\ lock = u
    /\ pc[u] \in {"g_check2", "r_wtok", "r_wexp"}

\* C17: one get() call sends at most one token-endpoint exchange.
C17_OneExchangePerCall == \A t \in Callers : xcount[t] <= 1

\* the exchange of a get() was answered with an expires_in inside the margin
C17_Witness ==
  \E t \in Callers :
    /\ xcount[t] = 1
    /\ pc[t] = "r_lock"
    /\ expires_in[t] <= SafetyMargin

\* C18: once a refresh has stored a token, the stored expiry is later than
\* the time at which it was stored.
C18_ExpiryAfterIssue == expVer # NoToken => expires_at > issuedAt

\* C19: the loop runs and get() is called only on a keeper whose construction
\* stored a token, the cached token is never absent from then on, and get()
\* never returns an absent token.
C19_NeverEmptyToken ==
  /\ (pc[LoopT] # "unstarted" \/ \E t \in Callers : calls[t] > 0)
       => (pc[MainT] = "done" /\ ctorErr = "" /\ access_token # NoToken)
  /\ pc[MainT] = "failed" => (access_token = NoToken /\ pc[LoopT] = "unstarted")
  /\ \A t \in Callers : result[t].kind = "token" => result[t].tok # NoToken

\* a get() has returned a token
C19_Witness ==
  \E t \in Callers :
    /\ result[t].kind = "token"
    /\ result[t].tok # NoToken
    /\ pc[LoopT] # "unstarted"
====
